---- MODULE Spec2Model ----
(***************************************************************************)
(* Model of the devp2p command / protocol layer of trinity:                *)
(*   src/p2p/protocol.py   Command, get_command_class, Protocol,           *)
(*                         _pad_to_16_byte_boundary                        *)
(*   src/p2p/p2p_proto.py  Hello, Disconnect, Ping, Pong, P2PProtocol      *)
(* Byte strings are sequences of 0..255.  A call's outcome is a record     *)
(* [ok |-> TRUE, val |-> v] or [ok |-> FALSE, err |-> <exception name>].   *)
(***************************************************************************)
EXTENDS Integers, Sequences, FiniteSets, TLC

VARIABLES
    command_classes,   \* protocol.py:172  specifier -> bound command instance
    constructed,       \* specifier -> number of CommandClassInstance() built for it
    handed,            \* set of <<specifier, instance>> returned by get_command_class
    proto,             \* the Protocol object's attributes
    sent,              \* peer.send(header, body) calls, in order
    last,              \* outcome of the last operation
    pc,                \* per thread: the statement it is about to run
    loc,               \* per thread: its local variables
    cmd, data, raw,    \* inputs of a codec call: bound command, payload, bytes
    frame_size,        \* Command.encode's frame_size (protocol.py:154)
    frame, decoded     \* Command.encode / Command.decode outcomes

vars == <<command_classes, constructed, handed, proto, sent, last, pc, loc,
          cmd, data, raw, frame_size, frame, decoded>>

Ok(v) == [ok |-> TRUE, val |-> v]
Raise(e) == [ok |-> FALSE, err |-> e]

----------------------------------------------------------------------------
(* Byte-string helpers                                                     *)

NULL_BYTE == <<0>>

RECURSIVE Replicate(_, _)
Replicate(bytes, n) == IF n <= 0 THEN <<>> ELSE bytes \o Replicate(bytes, n - 1)

\* data[from:] of Python, 0-based
SliceFrom(bytes, from) == IF from >= Len(bytes) THEN <<>>
                          ELSE SubSeq(bytes, from + 1, Len(bytes))

\* data[:to] of Python
SliceTo(bytes, to) == IF to >= Len(bytes) THEN bytes ELSE SubSeq(bytes, 1, to)

RECURSIVE ConcatAll(_)
ConcatAll(seqs) == IF seqs = <<>> THEN <<>> ELSE Head(seqs) \o ConcatAll(Tail(seqs))

RECURSIVE IntToBigEndian(_)
IntToBigEndian(n) == IF n < 256 THEN <<n>>
                     ELSE IntToBigEndian(n \div 256) \o <<n % 256>>

RECURSIVE BigEndianToInt(_)
BigEndianToInt(bytes) ==
    IF bytes = <<>> THEN 0
    ELSE 256 * BigEndianToInt(SubSeq(bytes, 1, Len(bytes) - 1)) + bytes[Len(bytes)]

RECURSIVE BitLength(_)
BitLength(n) == IF n = 0 THEN 0 ELSE 1 + BitLength(n \div 2)

----------------------------------------------------------------------------
(* rlp: raw items are [k |-> "str", v |-> bytes] or [k |-> "list", v |->   *)
(* sequence of items]                                                      *)

Str(bytes) == [k |-> "str", v |-> bytes]
Lst(items) == [k |-> "list", v |-> items]

LengthPrefix(length, offset) ==
    IF length < 56 THEN <<offset + length>>
    ELSE LET length_string == IntToBigEndian(length)
         IN  <<offset + 56 - 1 + Len(length_string)>> \o length_string

RECURSIVE EncodeRaw(_)
EncodeRaw(item) ==
    IF item.k = "str"
    THEN IF Len(item.v) = 1 /\ item.v[1] < 128 THEN item.v
         ELSE LengthPrefix(Len(item.v), 128) \o item.v
    ELSE LET payload == ConcatAll([i \in 1..Len(item.v) |-> EncodeRaw(item.v[i])])
         IN  LengthPrefix(Len(payload), 192) \o payload

\* consume_length_prefix: [ok, k, length, start] or a DecodingError; an index
\* past the end is Python's IndexError, which rlp.decode turns into DecodingError
ConsumeLengthPrefix(rlp, start) ==
    IF start + 1 > Len(rlp) THEN Raise("DecodingError")
    ELSE LET b0 == rlp[start + 1] IN
      IF b0 < 128 THEN [ok |-> TRUE, k |-> "str", length |-> 1, start |-> start]
      ELSE IF b0 < 128 + 56 THEN
        IF b0 - 128 = 1 /\ start + 2 > Len(rlp) THEN Raise("DecodingError")
        ELSE IF b0 - 128 = 1 /\ rlp[start + 2] < 128 THEN Raise("DecodingError")
        ELSE [ok |-> TRUE, k |-> "str", length |-> b0 - 128, start |-> start + 1]
      ELSE IF b0 < 192 THEN
        LET ll == b0 - 183
            len_prefix == SubSeq(rlp, start + 2, start + 1 + ll)
        IN  IF Len(len_prefix) > 0 /\ len_prefix[1] = 0 THEN Raise("DecodingError")
            ELSE IF BigEndianToInt(len_prefix) < 56 THEN Raise("DecodingError")
            ELSE [ok |-> TRUE, k |-> "str", length |-> BigEndianToInt(len_prefix),
                  start |-> start + 1 + ll]
      ELSE IF b0 < 192 + 56 THEN
        [ok |-> TRUE, k |-> "list", length |-> b0 - 192, start |-> start + 1]
      ELSE
        LET ll == b0 - 192 - 56 + 1
            len_prefix == SubSeq(rlp, start + 2, start + 1 + ll)
        IN  IF Len(len_prefix) > 0 /\ len_prefix[1] = 0 THEN Raise("DecodingError")
            ELSE IF BigEndianToInt(len_prefix) < 56 THEN Raise("DecodingError")
            ELSE [ok |-> TRUE, k |-> "list", length |-> BigEndianToInt(len_prefix),
                  start |-> start + 1 + ll]

\* consume_item / consume_payload: [ok, item, end]
RECURSIVE ConsumeItem(_, _)
RECURSIVE ConsumeList(_, _, _, _)
ConsumeItem(rlp, start) ==
    LET Payload(p) ==
          IF ~p.ok THEN p
          ELSE IF p.k = "str"
          THEN [ok |-> TRUE, item |-> Str(SubSeq(rlp, p.start + 1, p.start + p.length)),
                end |-> p.start + p.length]
          ELSE ConsumeList(rlp, p.start, p.start + p.length, <<>>)
    IN  Payload(ConsumeLengthPrefix(rlp, start))

ConsumeList(rlp, next_item_start, end, items) ==
    LET Rest(it) == IF ~it.ok THEN it
                    ELSE ConsumeList(rlp, it.end, end, Append(items, it.item))
    IN  IF next_item_start < end THEN Rest(ConsumeItem(rlp, next_item_start))
        ELSE IF next_item_start > end THEN Raise("DecodingError")
        ELSE [ok |-> TRUE, item |-> Lst(items), end |-> next_item_start]

\* rlp.decode(rlp, strict=True) before the sedes is applied
RlpDecodeRaw(rlp) ==
    LET Strict(r) == IF ~r.ok THEN r
                     ELSE IF r.end # Len(rlp) THEN Raise("DecodingError")
                     ELSE Ok(r.item)
    IN  Strict(ConsumeItem(rlp, 0))

----------------------------------------------------------------------------
(* rlp.sedes used by the command structures.  Python values: an int is a   *)
(* natural, a str a sequence of code points, bytes a sequence of bytes, a  *)
(* capabilities list a sequence of <<name, version>>.                      *)

\* str.encode('utf8') for code points below 0x800
RECURSIVE Utf8Encode(_)
Utf8Encode(text) ==
    IF text = <<>> THEN <<>>
    ELSE (IF Head(text) < 128 THEN <<Head(text)>>
          ELSE <<192 + Head(text) \div 64, 128 + (Head(text) % 64)>>)
         \o Utf8Encode(Tail(text))

\* bytes.decode('utf8') for one- and two-byte sequences (lead bytes below 0xE0)
RECURSIVE Utf8Decode(_)
Utf8Decode(bytes) ==
    LET Cons(code_point, r) == IF r.ok THEN Ok(<<code_point>> \o r.val) ELSE r IN
    IF bytes = <<>> THEN Ok(<<>>)
    ELSE IF bytes[1] < 128 THEN Cons(bytes[1], Utf8Decode(Tail(bytes)))
    ELSE IF bytes[1] >= 194 /\ bytes[1] < 224 /\ Len(bytes) >= 2
            /\ bytes[2] >= 128 /\ bytes[2] < 192
      THEN Cons((bytes[1] - 192) * 64 + (bytes[2] - 128),
                Utf8Decode(SubSeq(bytes, 3, Len(bytes))))
    ELSE Raise("DeserializationError")

\* sedes.big_endian_int.serialize
BigEndianIntSerialize(n) == Str(IF n = 0 THEN <<>> ELSE IntToBigEndian(n))

\* sedes.big_endian_int.deserialize: no type check of its own
BigEndianIntDeserialize(item) ==
    IF item.k = "list"
    THEN IF item.v = <<>> THEN Ok(0) ELSE Raise("TypeError")
    ELSE IF Len(item.v) > 0 /\ item.v[1] = 0 THEN Raise("DeserializationError")
    ELSE Ok(BigEndianToInt(item.v))

RECURSIVE Serialize(_, _)
Serialize(type, value) ==
    CASE type = "int"    -> BigEndianIntSerialize(value)
      [] type = "text"   -> Str(Utf8Encode(value))
      [] type = "binary" -> Str(value)
      [] type = "pair"   -> Lst(<<Serialize("text", value[1]), Serialize("int", value[2])>>)
      [] type = "caps"   -> Lst([i \in 1..Len(value) |-> Serialize("pair", value[i])])

\* first failure of a sequence of outcomes, in order, or none
RECURSIVE FirstError(_)
FirstError(rs) == IF rs = <<>> THEN Ok(<<>>)
                  ELSE IF ~Head(rs).ok THEN Head(rs) ELSE FirstError(Tail(rs))

\* List / CountableList: the elements' values, or the first element's failure,
\* a DeserializationError wrapped into a ListDeserializationError and anything
\* else going through unchanged
Collect(rs) ==
    LET Wrap(e) == IF e.ok THEN Ok([i \in 1..Len(rs) |-> rs[i].val])
                   ELSE IF e.err \in {"DeserializationError", "ListDeserializationError"}
                   THEN Raise("ListDeserializationError")
                   ELSE e
    IN  Wrap(FirstError(rs))

RECURSIVE Deserialize(_, _)
Deserialize(type, item) ==
    CASE type = "int"    -> BigEndianIntDeserialize(item)
      [] type = "text"   -> IF item.k # "str" THEN Raise("DeserializationError")
                            ELSE Utf8Decode(item.v)
      [] type = "binary" -> IF item.k # "str" THEN Raise("DeserializationError")
                            ELSE Ok(item.v)
      [] type = "pair"   ->
           IF item.k # "list" \/ Len(item.v) # 2 THEN Raise("ListDeserializationError")
           ELSE Collect(<<Deserialize("text", item.v[1]), Deserialize("int", item.v[2])>>)
      [] type = "caps"   ->
           IF item.k # "list" THEN Raise("ListDeserializationError")
           ELSE Collect([i \in 1..Len(item.v) |-> Deserialize("pair", item.v[i])])

\* sedes.List(types, strict).deserialize
ListDeserialize(types, strict, item) ==
    IF item.k # "list" THEN Raise("ListDeserializationError")
    ELSE IF (strict /\ Len(item.v) # Len(types)) \/ Len(item.v) < Len(types)
      THEN Raise("ListDeserializationError")
    ELSE Collect([i \in 1..Len(types) |-> Deserialize(types[i], item.v[i])])

----------------------------------------------------------------------------
(* snappy block format                                                     *)

\* the varint preamble: [ok, val, next]
RECURSIVE ReadVarint(_, _, _, _)
ReadVarint(bytes, pos, mult, acc) ==
    IF pos > Len(bytes) \/ mult > 268435456 THEN Raise("UncompressError")
    ELSE IF bytes[pos] < 128
      THEN [ok |-> TRUE, val |-> acc + bytes[pos] * mult, next |-> pos + 1]
    ELSE ReadVarint(bytes, pos + 1, mult * 128, acc + (bytes[pos] - 128) * mult)

RECURSIVE LittleEndianToInt(_)
LittleEndianToInt(bytes) ==
    IF bytes = <<>> THEN 0 ELSE Head(bytes) + 256 * LittleEndianToInt(Tail(bytes))

\* a copy element: length bytes taken offset back from the end of out
RECURSIVE CopyBack(_, _, _)
CopyBack(out, offset, length) ==
    IF length = 0 THEN out
    ELSE CopyBack(Append(out, out[Len(out) - offset + 1]), offset, length - 1)

\* the elements after the preamble, appended to out; limit is the announced length
RECURSIVE SnappyElements(_, _, _, _)
SnappyElements(bytes, pos, out, limit) ==
    LET Literal(first, length) ==
          IF first + length - 1 > Len(bytes) \/ Len(out) + length > limit
          THEN Raise("UncompressError")
          ELSE SnappyElements(bytes, first + length,
                              out \o SubSeq(bytes, first, first + length - 1), limit)
        Copy(next, offset, length) ==
          IF offset = 0 \/ offset > Len(out) \/ Len(out) + length > limit
          THEN Raise("UncompressError")
          ELSE SnappyElements(bytes, next, CopyBack(out, offset, length), limit)
        Element(tag, extra) ==
          IF pos + extra > Len(bytes) THEN Raise("UncompressError")
          ELSE IF tag % 4 = 0
          THEN Literal(pos + extra + 1,
                       IF extra = 0 THEN tag \div 4 + 1
                       ELSE LittleEndianToInt(SubSeq(bytes, pos + 1, pos + extra)) + 1)
          ELSE IF tag % 4 = 1
          THEN Copy(pos + extra + 1, (tag \div 32) * 256 + bytes[pos + 1],
                    4 + ((tag \div 4) % 8))
          ELSE Copy(pos + extra + 1, LittleEndianToInt(SubSeq(bytes, pos + 1, pos + extra)),
                    tag \div 4 + 1)
        ExtraBytes(tag) ==
          IF tag % 4 = 0 THEN (IF tag \div 4 < 60 THEN 0 ELSE tag \div 4 - 59)
          ELSE IF tag % 4 = 1 THEN 1 ELSE IF tag % 4 = 2 THEN 2 ELSE 4
    IN  IF pos > Len(bytes) THEN Ok(out)
        ELSE Element(bytes[pos], ExtraBytes(bytes[pos]))

\* snappy.decompress
SnappyDecompress(bytes) ==
    LET Checked(n, r) == IF ~r.ok THEN r
                         ELSE IF Len(r.val) # n.val THEN Raise("UncompressError")
                         ELSE r
        Body(n) == IF ~n.ok THEN n
                   ELSE Checked(n, SnappyElements(bytes, n.next, <<>>, n.val))
    IN  Body(ReadVarint(bytes, 1, 1, 0))

RECURSIVE Varint(_)
Varint(n) == IF n < 128 THEN <<n>> ELSE <<128 + (n % 128)>> \o Varint(n \div 128)

\* snappy.compress of an input shorter than the compressor's match window: the
\* length preamble and one literal element
SnappyCompress(bytes) ==
    IF bytes = <<>> THEN <<0>>
    ELSE IF Len(bytes) <= 60 THEN Varint(Len(bytes)) \o <<(Len(bytes) - 1) * 4>> \o bytes
    ELSE Varint(Len(bytes)) \o <<240, Len(bytes) - 1>> \o bytes

----------------------------------------------------------------------------
(* The command classes of p2p_proto.py                                     *)

Schemas == {"Hello", "Disconnect", "Ping", "Pong"}

\* _cmd_id
BaseCmdId(schema) ==
    CASE schema = "Hello" -> 0
      [] schema = "Disconnect" -> 1
      [] schema = "Ping" -> 2
      [] schema = "Pong" -> 3

\* structure: <<field name, sedes>> in declared order
Structure(schema) ==
    CASE schema = "Hello" -> << <<"version", "int">>,
                                <<"client_version_string", "text">>,
                                <<"capabilities", "caps">>,
                                <<"listen_port", "int">>,
                                <<"remote_pubkey", "binary">> >>
      [] schema = "Disconnect" -> << <<"reason", "int">> >>
      [] OTHER -> <<>>

\* decode_strict
DecodeStrict(schema) == schema # "Hello"

FieldNames(schema) == {Structure(schema)[i][1] : i \in 1..Len(Structure(schema))}
FieldTypes(schema) == [i \in 1..Len(Structure(schema)) |-> Structure(schema)[i][2]]
FieldIndex(schema, name) ==
    CHOOSE i \in 1..Len(Structure(schema)) : Structure(schema)[i][1] = name

\* DisconnectReason(reason_id).name
DisconnectReasonName(reason_id) ==
    CASE reason_id = 0 -> "disconnect_requested"
      [] reason_id = 1 -> "tcp_sub_system_error"
      [] reason_id = 2 -> "bad_protocol"
      [] reason_id = 3 -> "useless_peer"
      [] reason_id = 4 -> "too_many_peers"
      [] reason_id = 5 -> "already_connected"
      [] reason_id = 6 -> "incompatible_p2p_version"
      [] reason_id = 7 -> "null_node_identity_received"
      [] reason_id = 8 -> "client_quitting"
      [] reason_id = 9 -> "unexpected_identity"
      [] reason_id = 10 -> "connected_to_self"
      [] reason_id = 11 -> "timeout"
      [] reason_id = 16 -> "subprotocol_error"
      [] OTHER -> "ValueError"

GetReasonName(reason_id) ==
    IF DisconnectReasonName(reason_id) = "ValueError" THEN "unknown reason"
    ELSE DisconnectReasonName(reason_id)

----------------------------------------------------------------------------
(* Command.  A bound command c is the object get_command_class returns:    *)
(* [cmd_type, cmd_id_offset, snappy_support, cmd_id, n], n telling apart   *)
(* the objects built for one specifier.                                    *)

PadAlways(bytes) == bytes \o Replicate(NULL_BYTE, 16 - (Len(bytes) % 16))

_pad_to_16_byte_boundary(bytes) ==
    LET remainder == Len(bytes) % 16 IN
    IF remainder # 0 THEN bytes \o Replicate(NULL_BYTE, 16 - remainder) ELSE bytes

EncodePayloadExtraKeys(c, d) ==
    IF ~(FieldNames(c.cmd_type) \subseteq DOMAIN d) THEN Raise("ValueError")
    ELSE Ok(EncodeRaw(Lst([i \in 1..Len(Structure(c.cmd_type)) |->
                 Serialize(Structure(c.cmd_type)[i][2], d[Structure(c.cmd_type)[i][1]])])))

\* Command.encode_payload on a dict d
EncodePayload(c, d) ==
    IF DOMAIN d # FieldNames(c.cmd_type) THEN Raise("ValueError")
    ELSE Ok(EncodeRaw(Lst([i \in 1..Len(Structure(c.cmd_type)) |->
                 Serialize(Structure(c.cmd_type)[i][2], d[Structure(c.cmd_type)[i][1]])])))

\* Command.decode_payload: only rlp.DecodingError is caught
DecodePayload(c, rlp_data) ==
    LET Zip(l) == IF ~l.ok THEN l
                  ELSE Ok([name \in FieldNames(c.cmd_type) |->
                             l.val[FieldIndex(c.cmd_type, name)]])
        Typed(r) == IF ~r.ok THEN Raise("MalformedMessage")
                    ELSE Zip(ListDeserialize(FieldTypes(c.cmd_type),
                                             DecodeStrict(c.cmd_type), r.val))
    IN  Typed(RlpDecodeRaw(rlp_data))

CompressPayloadNoOverride(c, raw_payload) ==
    IF c.snappy_support THEN SnappyCompress(raw_payload) ELSE raw_payload

\* Command.compress_payload, and Hello's override
CompressPayload(c, raw_payload) ==
    IF c.cmd_type = "Hello" THEN raw_payload
    ELSE IF c.snappy_support THEN SnappyCompress(raw_payload)
    ELSE raw_payload

DecompressPayloadNoOverride(c, raw_payload) ==
    IF c.snappy_support THEN SnappyDecompress(raw_payload) ELSE Ok(raw_payload)

\* Command.decompress_payload, and Hello's override
DecompressPayload(c, raw_payload) ==
    IF c.cmd_type = "Hello" THEN Ok(raw_payload)
    ELSE IF c.snappy_support THEN SnappyDecompress(raw_payload)
    ELSE Ok(raw_payload)

\* p2p._utils.get_devp2p_cmd_id: the first byte, decoded as a big-endian integer
get_devp2p_cmd_id(msg) ==
    LET AsInt(r) == IF ~r.ok THEN r ELSE BigEndianIntDeserialize(r.val)
    IN  AsInt(RlpDecodeRaw(SliceTo(msg, 1)))

\* Command.decode
CommandDecode(c, bytes) ==
    LET Payload(encoded_payload) ==
          IF ~encoded_payload.ok THEN encoded_payload
          ELSE DecodePayload(c, encoded_payload.val)
        Checked(packet_type) ==
          IF ~packet_type.ok THEN packet_type
          ELSE IF packet_type.val # c.cmd_id THEN Raise("MalformedMessage")
          ELSE Payload(DecompressPayload(c, SliceFrom(bytes, 1)))
    IN  Checked(get_devp2p_cmd_id(bytes))

\* Disconnect.decode: the handler's first statement reads `self`, which a
\* classmethod does not bind
DisconnectDecode(c, bytes) ==
    LET Handled(raw_decoded) ==
          IF ~raw_decoded.ok
          THEN IF raw_decoded.err = "ListDeserializationError" THEN Raise("NameError")
               ELSE raw_decoded
          ELSE Ok([name \in {"reason", "reason_name"} |->
                     IF name = "reason" THEN raw_decoded.val["reason"]
                     ELSE GetReasonName(raw_decoded.val["reason"])])
    IN  Handled(CommandDecode(c, bytes))

\* c.decode(bytes), by method resolution
Decode(c, bytes) ==
    IF c.cmd_type = "Disconnect" THEN DisconnectDecode(c, bytes)
    ELSE CommandDecode(c, bytes)

FrameHeaderLoose(size) ==
    IF BitLength(size) > 25 THEN Raise("ValueError")
    ELSE Ok(_pad_to_16_byte_boundary(
              <<(size \div 65536) % 256, (size \div 256) % 256,
                size % 256>> \o <<194, 128, 128>>))

\* Command.encode, from the size check to the header
FrameHeader(size) ==
    IF BitLength(size) > 24 THEN Raise("ValueError")
    ELSE Ok(_pad_to_16_byte_boundary(
              <<(size \div 65536) % 256, (size \div 256) % 256,
                size % 256>> \o <<194, 128, 128>>))

\* rlp.encode(cls.cmd_id, sedes=big_endian_int)
EncCmdId(c) == EncodeRaw(BigEndianIntSerialize(c.cmd_id))

\* Command.encode
Encode(c, d) ==
    LET Framed(message, header) ==
          IF ~header.ok THEN header
          ELSE Ok([header |-> header.val, body |-> _pad_to_16_byte_boundary(message)])
        Sized(message) == Framed(message, FrameHeader(Len(message)))
        Compressed(encoded_payload) ==
          IF ~encoded_payload.ok THEN encoded_payload
          ELSE Sized(EncCmdId(c) \o CompressPayload(c, encoded_payload.val))
    IN  Compressed(EncodePayload(c, d))

----------------------------------------------------------------------------
(* get_command_class                                                       *)

Offsets == {0, 16}
WideOffsets == {0, 16, 128}

\* class CommandClassInstance(cmd_class) and its one instance
CommandClassInstance(cmd_class, cmd_id_offset, snappy_support, n) ==
    [cmd_type |-> cmd_class, cmd_id_offset |-> cmd_id_offset,
     snappy_support |-> snappy_support,
     cmd_id |-> cmd_id_offset + BaseCmdId(cmd_class), n |-> n]

GetCommandClassNoLookup(cache, built, cmd_class, cmd_id_offset, snappy_support) ==
    LET specifier == <<cmd_class, cmd_id_offset, snappy_support>>
        c == CommandClassInstance(cmd_class, cmd_id_offset, snappy_support,
                                  built[specifier] + 1)
    IN  [cache |-> [k \in DOMAIN cache \cup {specifier} |->
                      IF k = specifier THEN c ELSE cache[k]],
         built |-> [built EXCEPT ![specifier] = @ + 1],
         specifier |-> specifier, c |-> c]

\* get_command_class run without interruption: the cache and the construction
\* counts after the call, and the object returned
get_command_class(cache, built, cmd_class, cmd_id_offset, snappy_support) ==
    LET specifier == <<cmd_class, cmd_id_offset, snappy_support>>
        c == CommandClassInstance(cmd_class, cmd_id_offset, snappy_support,
                                  built[specifier] + 1)
    IN  IF specifier \in DOMAIN cache
        THEN [cache |-> cache, built |-> built,
              specifier |-> specifier, c |-> cache[specifier]]
        ELSE [cache |-> [k \in DOMAIN cache \cup {specifier} |->
                           IF k = specifier THEN c ELSE cache[k]],
              built |-> [built EXCEPT ![specifier] = @ + 1],
              specifier |-> specifier, c |-> c]

----------------------------------------------------------------------------
(* Protocol                                                                *)

\* P2PProtocol._commands
P2PCommands == <<"Hello", "Ping", "Pong", "Disconnect">>

\* {cmd.cmd_type: cmd for cmd in commands}: a later entry replaces an earlier one
CmdByType(commands) ==
    [t \in {commands[i].cmd_type : i \in 1..Len(commands)} |->
        commands[CHOOSE i \in 1..Len(commands) :
                    /\ commands[i].cmd_type = t
                    /\ \A j \in 1..Len(commands) : commands[j].cmd_type = t => j <= i]]

\* {cmd.cmd_id: cmd for cmd in commands}
CmdById(commands) ==
    [n \in {commands[i].cmd_id : i \in 1..Len(commands)} |->
        commands[CHOOSE i \in 1..Len(commands) :
                    /\ commands[i].cmd_id = n
                    /\ \A j \in 1..Len(commands) : commands[j].cmd_id = n => j <= i]]

\* the list comprehension of _update_protocol_commands: st is [cache, built,
\* handed, commands]
RECURSIVE BindAll(_, _, _, _)
BindAll(st, classes, cmd_id_offset, snappy_support) ==
    LET Bound(r) == [cache |-> r.cache, built |-> r.built,
                     handed |-> st.handed \cup {<<r.specifier, r.c>>},
                     commands |-> Append(st.commands, r.c)]
    IN  IF classes = <<>> THEN st
        ELSE BindAll(Bound(get_command_class(st.cache, st.built, Head(classes),
                                             cmd_id_offset, snappy_support)),
                     Tail(classes), cmd_id_offset, snappy_support)

\* Protocol._update_protocol_commands on the object with the given offset and
\* flag: the object's attributes and the cache afterwards
_update_protocol_commands(cmd_id_offset, snappy_support, cache, built, seen) ==
    LET Assigned(st) ==
          [proto |-> [constructed |-> TRUE, cmd_id_offset |-> cmd_id_offset,
                      snappy_support |-> snappy_support,
                      commands |-> st.commands,
                      cmd_by_type |-> CmdByType(st.commands),
                      cmd_by_id |-> CmdById(st.commands)],
           cache |-> st.cache, built |-> st.built, handed |-> st.handed]
    IN  Assigned(BindAll([cache |-> cache, built |-> built, handed |-> seen,
                          commands |-> <<>>],
                         P2PCommands, cmd_id_offset, snappy_support))

SetterKeepsCommands(p, enabled, cache, built, seen) ==
    [proto |-> [p EXCEPT !.snappy_support = enabled],
     cache |-> cache, built |-> built, handed |-> seen]

\* the snappy_support setter
snappy_support_setter(p, enabled, cache, built, seen) ==
    _update_protocol_commands(p.cmd_id_offset, enabled, cache, built, seen)

NotCalled == [called |-> FALSE]
Called(r) == [called |-> TRUE, res |-> r]

----------------------------------------------------------------------------
(* Inputs of the codec calls                                               *)

Texts == {<<>>, <<97>>, <<233>>, <<116, 114, 105, 110, 105, 116, 121>>,
          <<116, 114, 105, 110, 105, 116, 121, 47, 49>>}
Capabilities == {<<>>, << <<<<101, 116, 104>>, 63>> >>,
                 << <<<<101, 116, 104>>, 63>>, <<<<108, 101, 115>>, 2>> >>}
Ports == {0, 30303}
PublicKeys == {<<>>, <<0>>, <<1, 255>>}
Reasons == {0, 3, 16, 99, 256}

HelloPayloads ==
    {[version |-> 5, client_version_string |-> t, capabilities |-> c,
      listen_port |-> l, remote_pubkey |-> k] :
        t \in Texts, c \in Capabilities, l \in Ports, k \in PublicKeys}
DisconnectPayloads == {[reason |-> r] : r \in Reasons}
EmptyPayload == <<>>

\* dicts whose keys are those of no command, or of another one
OddPayloads == {[reason |-> 3, extra |-> 1], [reasn |-> 3],
                [version |-> 5, client_version_string |-> <<97>>,
                 capabilities |-> <<>>, listen_port |-> 0]}

DictInputs == HelloPayloads \cup DisconnectPayloads \cup {EmptyPayload} \cup OddPayloads

Conforms(schema, d) == DOMAIN d = FieldNames(schema)

BoundCommands == {CommandClassInstance(s, o, f, 1) :
                     s \in Schemas, o \in WideOffsets, f \in BOOLEAN}

\* the message a frame carries: the body cut to the header's frame size
FrameMessage(f) == SliceTo(f.body, BigEndianToInt(SubSeq(f.header, 1, 3)))

MaxTailLen == 3
LeadBytes == {128, 1, 2, 18}
TailBytes == {0, 1, 2, 128, 129, 192, 193}
RECURSIVE SeqsUpTo(_, _)
SeqsUpTo(S, n) == IF n = 0 THEN {<<>>}
                  ELSE SeqsUpTo(S, n - 1) \cup
                       {Append(t, b) : t \in {u \in SeqsUpTo(S, n - 1) : Len(u) = n - 1}, b \in S}
\* received bytes whose first byte is a well-formed integer
RawInputs == {<<b>> \o t : b \in LeadBytes, t \in SeqsUpTo(TailBytes, MaxTailLen)}

SizeWindow == 64
FrameSizeLimit == 16777216
FrameSizes == (0..SizeWindow)
              \cup ((FrameSizeLimit - SizeWindow)..(FrameSizeLimit + SizeWindow))
              \cup {2 * FrameSizeLimit - 1, 2 * FrameSizeLimit}

----------------------------------------------------------------------------
(* Idle values of the state a specification does not use                   *)

Specifiers == Schemas \X Offsets \X BOOLEAN
Threads == {1, 2}

IdleProtocol == command_classes = <<>> /\ constructed = [k \in Specifiers |-> 0]
                /\ handed = {} /\ proto = [constructed |-> FALSE]
                /\ sent = <<>> /\ last = [op |-> "none"]
IdleThreads == pc = [t \in Threads |-> "idle"] /\ loc = [t \in Threads |-> <<>>]
IdleCodec == cmd = CommandClassInstance("Ping", 0, FALSE, 1) /\ data = <<>>
             /\ raw = <<>> /\ frame = NotCalled /\ decoded = NotCalled
IdleFrame == frame_size = 0

protocol_vars == <<command_classes, constructed, handed, proto, sent, last>>
thread_vars == <<pc, loc>>

----------------------------------------------------------------------------
(* SpecCodec: Command.encode on a payload, then Command.decode on what it  *)
(* returned                                                                *)

InitCodec == /\ IdleProtocol /\ IdleThreads /\ IdleFrame
             /\ cmd \in BoundCommands
             /\ data \in DictInputs
             /\ raw = <<>> /\ frame = NotCalled /\ decoded = NotCalled

EncodeCall == /\ ~frame.called
              /\ frame' = Called(Encode(cmd, data))
              /\ UNCHANGED <<protocol_vars, thread_vars, cmd, data, raw, frame_size, decoded>>

\* decode of the body exactly as encode returned it
DecodeBody == /\ frame.called /\ frame.res.ok /\ ~decoded.called
              /\ decoded' = [called |-> TRUE, of |-> "body",
                             res |-> Decode(cmd, frame.res.val.body)]
              /\ UNCHANGED <<protocol_vars, thread_vars, cmd, data, raw, frame_size, frame>>

\* decode of the message the frame carries
DecodeMessage == /\ frame.called /\ frame.res.ok /\ ~decoded.called
                 /\ decoded' = [called |-> TRUE, of |-> "message",
                                res |-> Decode(cmd, FrameMessage(frame.res.val))]
                 /\ UNCHANGED <<protocol_vars, thread_vars, cmd, data, raw, frame_size, frame>>

NextCodec == EncodeCall \/ DecodeBody \/ DecodeMessage

SpecCodec == InitCodec /\ [][NextCodec]_vars

----------------------------------------------------------------------------
(* SpecDecode: decode of received bytes                                    *)

InitDecode == /\ IdleProtocol /\ IdleThreads /\ IdleFrame
              /\ cmd \in BoundCommands
              /\ raw \in RawInputs
              /\ data = <<>> /\ frame = NotCalled /\ decoded = NotCalled

DecodeRaw == /\ ~decoded.called
             /\ decoded' = [called |-> TRUE, of |-> "raw", res |-> Decode(cmd, raw)]
             /\ UNCHANGED <<protocol_vars, thread_vars, cmd, data, raw, frame_size, frame>>

NextDecode == DecodeRaw

SpecDecode == InitDecode /\ [][NextDecode]_vars

----------------------------------------------------------------------------
(* SpecFrame: Command.encode from frame_size on, the payload given by its  *)
(* length alone                                                            *)

InitFrame == /\ IdleProtocol /\ IdleThreads /\ IdleCodec
             /\ frame_size \in FrameSizes

EncodeFrame == /\ ~frame.called
               /\ frame' = Called(FrameHeader(frame_size))
               /\ UNCHANGED <<protocol_vars, thread_vars, cmd, data, raw, frame_size, decoded>>

NextFrame == EncodeFrame

SpecFrame == InitFrame /\ [][NextFrame]_vars

----------------------------------------------------------------------------
(* Spec: one Protocol object and the binding cache, each call run to its   *)
(* end before the next starts                                              *)

MaxSent == 1
DirectSchemas == {"Ping"}
RequestPayloads ==
    {EmptyPayload, [reason |-> 3], [reason |-> 3, extra |-> 1], [reasn |-> 3],
     [version |-> 5, client_version_string |-> <<97>>, capabilities |-> <<>>,
      listen_port |-> 0],
     [version |-> 5, client_version_string |-> <<116, 114, 105, 110, 105, 116, 121>>,
      capabilities |-> << <<<<101, 116, 104>>, 63>> >>, listen_port |-> 30303,
      remote_pubkey |-> <<1, 255>>]}

Init == /\ IdleProtocol /\ IdleThreads /\ IdleCodec /\ IdleFrame

\* a call of get_command_class from outside the Protocol object
GetCommandClassCall(cmd_class, cmd_id_offset, flag) ==
    LET Returned(r) ==
          /\ command_classes' = r.cache
          /\ constructed' = r.built
          /\ handed' = handed \cup {<<r.specifier, r.c>>}
          /\ last' = [op |-> "get_command_class"]
    IN  /\ Returned(get_command_class(command_classes, constructed,
                                      cmd_class, cmd_id_offset, flag))
        /\ UNCHANGED <<proto, sent, thread_vars, cmd, data, raw, frame_size, frame, decoded>>

Installed(r, op) ==
    /\ proto' = r.proto
    /\ command_classes' = r.cache
    /\ constructed' = r.built
    /\ handed' = r.handed
    /\ last' = [op |-> op]
    /\ UNCHANGED <<sent, thread_vars, cmd, data, raw, frame_size, frame, decoded>>

\* Protocol.__init__(peer, cmd_id_offset, snappy_support); P2PProtocol.__init__
\* is the call with cmd_id_offset 0 and snappy_support False
ProtocolInit(cmd_id_offset, flag) ==
    /\ ~proto.constructed
    /\ Installed(_update_protocol_commands(cmd_id_offset, flag, command_classes,
                                           constructed, handed), "init")

\* protocol.snappy_support = enabled
SetSnappySupport(enabled) ==
    /\ proto.constructed
    /\ Installed(snappy_support_setter(proto, enabled, command_classes,
                                       constructed, handed), "snappy_support")

\* Protocol.send_request(request) and Protocol.send
SendRequest(cmd_type, payload) ==
    LET Forward(r) ==
          /\ sent' = IF r.ok THEN Append(sent, r.val) ELSE sent
          /\ last' = [op |-> "send_request", cmd_type |-> cmd_type,
                      payload |-> payload,
                      res |-> IF r.ok THEN Ok("sent") ELSE r]
        Capped(r) == r.ok => Len(sent) < MaxSent
    IN  /\ proto.constructed
        /\ Capped(Encode(proto.cmd_by_type[cmd_type], payload))
        /\ Forward(Encode(proto.cmd_by_type[cmd_type], payload))
        /\ UNCHANGED <<command_classes, constructed, handed, proto, thread_vars,
                       cmd, data, raw, frame_size, frame, decoded>>

Next == \/ \E s \in DirectSchemas, o \in Offsets, f \in BOOLEAN : GetCommandClassCall(s, o, f)
        \/ \E o \in Offsets, f \in BOOLEAN : ProtocolInit(o, f)
        \/ \E f \in BOOLEAN : SetSnappySupport(f)
        \/ \E s \in Schemas, p \in RequestPayloads : SendRequest(s, p)

Spec == Init /\ [][Next]_vars

----------------------------------------------------------------------------
(* SpecConc: the same object and cache used by two threads.  The code      *)
(* takes no lock, so a thread may be preempted between any two statements; *)
(* a step here is one statement's access to the shared state.              *)

\* the thread of the session, which turns compression on or off once the
\* handshake is done; both threads bind commands and send
SetterThreads == {1}
ConcSpecifiers == {<<"Ping", 0, TRUE>>, <<"Ping", 16, FALSE>>}
ConcRequests == {<<"Ping", EmptyPayload>>, <<"Disconnect", [reason |-> 3]>>,
                 <<"Disconnect", [reasn |-> 3]>>}

\* the state after P2PProtocol(peer) has returned
InitConc ==
    LET Constructed(r) == /\ proto = r.proto
                          /\ command_classes = r.cache
                          /\ constructed = r.built
                          /\ handed = r.handed
    IN  /\ Constructed(_update_protocol_commands(0, FALSE, <<>>,
                                                 [k \in Specifiers |-> 0], {}))
        /\ sent = <<>> /\ last = [op |-> "none"]
        /\ IdleThreads /\ IdleCodec /\ IdleFrame

codec_vars == <<cmd, data, raw, frame_size, frame, decoded>>

Goto(t, label, locals) == /\ pc' = [pc EXCEPT ![t] = label]
                          /\ loc' = [loc EXCEPT ![t] = locals]

\* a thread enters get_command_class(specifier)
CallGetCommandClass(t, specifier) ==
    /\ pc[t] = "idle"
    /\ Goto(t, "gcc_check", [op |-> "get_command_class", specifier |-> specifier])
    /\ UNCHANGED <<protocol_vars, codec_vars>>

\* a thread enters the snappy_support setter
CallSetter(t, enabled) ==
    /\ t \in SetterThreads
    /\ pc[t] = "idle"
    /\ Goto(t, "set_flag", [op |-> "snappy_support", enabled |-> enabled])
    /\ UNCHANGED <<protocol_vars, codec_vars>>

\* a thread enters send_request
CallSendRequest(t, request) ==
    /\ pc[t] = "idle"
    /\ Len(sent) < MaxSent
    /\ Goto(t, "send_lookup", [op |-> "send_request", cmd_type |-> request[1],
                               payload |-> request[2]])
    /\ UNCHANGED <<protocol_vars, codec_vars>>

\* protocol.py:257  self._snappy_support = enabled
SetFlag(t) ==
    /\ pc[t] = "set_flag"
    /\ proto' = [proto EXCEPT !.snappy_support = loc[t].enabled]
    /\ Goto(t, "update_next", [op |-> "snappy_support", classes |-> P2PCommands,
                               commands |-> <<>>])
    /\ UNCHANGED <<command_classes, constructed, handed, sent, last, codec_vars>>

\* protocol.py:233-234  one turn of the comprehension, which reads the object's
\* offset and flag anew; at its end the list is assigned to self.commands
UpdateNext(t) ==
    /\ pc[t] = "update_next"
    /\ IF loc[t].classes # <<>>
       THEN /\ Goto(t, "gcc_check",
                    [loc[t] EXCEPT !.classes = Tail(@)] @@
                    [specifier |-> <<Head(loc[t].classes), proto.cmd_id_offset,
                                     proto.snappy_support>>])
            /\ UNCHANGED proto
       ELSE /\ proto' = [proto EXCEPT !.commands = loc[t].commands]
            /\ Goto(t, "assign_by_type", [op |-> "snappy_support"])
    /\ UNCHANGED <<command_classes, constructed, handed, sent, last, codec_vars>>

\* protocol.py:179  if specifier in command_classes.keys()
GccCheck(t) ==
    /\ pc[t] = "gcc_check"
    /\ pc' = [pc EXCEPT ![t] = IF loc[t].specifier \in DOMAIN command_classes
                               THEN "gcc_hit" ELSE "gcc_construct"]
    /\ UNCHANGED <<loc, protocol_vars, codec_vars>>

\* get_command_class returns c to its caller
Return(t, c) ==
    /\ handed' = handed \cup {<<loc[t].specifier, c>>}
    /\ IF loc[t].op = "get_command_class"
       THEN Goto(t, "idle", <<>>)
       ELSE Goto(t, "update_next",
                 [op |-> "snappy_support", classes |-> loc[t].classes,
                  commands |-> Append(loc[t].commands, c)])

\* protocol.py:180  return command_classes[specifier]
GccHit(t) ==
    /\ pc[t] = "gcc_hit"
    /\ Return(t, command_classes[loc[t].specifier])
    /\ UNCHANGED <<command_classes, constructed, proto, sent, last, codec_vars>>

\* protocol.py:182-196  c = CommandClassInstance()
GccConstruct(t) ==
    /\ pc[t] = "gcc_construct"
    /\ constructed' = [constructed EXCEPT ![loc[t].specifier] = @ + 1]
    /\ Goto(t, "gcc_write",
            loc[t] @@ [c |-> CommandClassInstance(loc[t].specifier[1], loc[t].specifier[2],
                                                  loc[t].specifier[3],
                                                  constructed[loc[t].specifier] + 1)])
    /\ UNCHANGED <<command_classes, handed, proto, sent, last, codec_vars>>

\* protocol.py:197-198  command_classes[specifier] = c; return c
GccWrite(t) ==
    /\ pc[t] = "gcc_write"
    /\ command_classes' = [k \in DOMAIN command_classes \cup {loc[t].specifier} |->
                             IF k = loc[t].specifier THEN loc[t].c ELSE command_classes[k]]
    /\ Return(t, loc[t].c)
    /\ UNCHANGED <<constructed, proto, sent, last, codec_vars>>

\* protocol.py:235  self.cmd_by_type = {...}
AssignByType(t) ==
    /\ pc[t] = "assign_by_type"
    /\ proto' = [proto EXCEPT !.cmd_by_type = CmdByType(proto.commands)]
    /\ Goto(t, "assign_by_id", loc[t])
    /\ UNCHANGED <<command_classes, constructed, handed, sent, last, codec_vars>>

\* protocol.py:236  self.cmd_by_id = {...}
AssignById(t) ==
    /\ pc[t] = "assign_by_id"
    /\ proto' = [proto EXCEPT !.cmd_by_id = CmdById(proto.commands)]
    /\ Goto(t, "idle", <<>>)
    /\ UNCHANGED <<command_classes, constructed, handed, sent, last, codec_vars>>

\* protocol.py:264  command = self.cmd_by_type[request.cmd_type]; flag is the
\* object's flag as this statement finds it
SendLookup(t) ==
    /\ pc[t] = "send_lookup"
    /\ Goto(t, "send_encode",
            loc[t] @@ [command |-> proto.cmd_by_type[loc[t].cmd_type],
                       flag |-> proto.snappy_support])
    /\ UNCHANGED <<protocol_vars, codec_vars>>

\* protocol.py:265-266  encode and self.send
SendEncode(t) ==
    LET Forward(r) == sent' = IF r.ok THEN Append(sent, r.val) ELSE sent
    IN  /\ pc[t] = "send_encode"
        /\ Forward(Encode(loc[t].command, loc[t].payload))
        /\ Goto(t, "idle", <<>>)
        /\ UNCHANGED <<command_classes, constructed, handed, proto, last, codec_vars>>

NextConc ==
    \E t \in Threads :
        \/ \E k \in ConcSpecifiers : CallGetCommandClass(t, k)
        \/ \E f \in BOOLEAN : CallSetter(t, f)
        \/ \E r \in ConcRequests : CallSendRequest(t, r)
        \/ SetFlag(t) \/ UpdateNext(t)
        \/ GccCheck(t) \/ GccHit(t) \/ GccConstruct(t) \/ GccWrite(t)
        \/ AssignByType(t) \/ AssignById(t)
        \/ SendLookup(t) \/ SendEncode(t)

SpecConc == InitConc /\ [][NextConc]_vars

----------------------------------------------------------------------------
(* Properties                                                              *)

HandedConsistent ==
    \A x \in handed, y \in handed :
        /\ x[1] = y[1] => x[2] = y[2]
        /\ (x[1][2] # y[1][2] \/ x[1][3] # y[1][3]) => x[2] # y[2]
        /\ x[2].cmd_id = x[1][2] + BaseCmdId(x[1][1])
        /\ x[2].snappy_support = x[1][3]

CacheKept ==
    \A k \in DOMAIN command_classes :
        k \in DOMAIN command_classes' /\ command_classes'[k] = command_classes[k]

\* C1: get_command_class calls run one after another: equal (schema, offset,
\* snappy) triples get the very same instance, triples differing in offset or
\* flag get different instances, every instance has cmd_id = offset + _cmd_id
\* and the requested flag, and a cache entry is never replaced or removed.
C1_BindingCache == []HandedConsistent /\ [][CacheKept]_vars

\* two direct calls with one triple, and calls differing in offset and in flag
C1_Witness ==
    /\ last.op = "get_command_class"
    /\ \E x \in handed, y \in handed : x[1][2] # y[1][2] /\ x[1][3] # y[1][3]
    /\ proto.constructed
    /\ <<"Ping", proto.cmd_id_offset, proto.snappy_support>> \in {x[1] : x \in handed}

Consistent(p) ==
    /\ \A i \in 1..Len(p.commands) : p.commands[i].snappy_support = p.snappy_support
    /\ \A s \in DOMAIN p.cmd_by_type : p.cmd_by_type[s].snappy_support = p.snappy_support
    /\ \A n \in DOMAIN p.cmd_by_id : p.cmd_by_id[n].snappy_support = p.snappy_support

\* C2: the snappy_support toggle is atomic for concurrent operations on the
\* object: a send_request about to read the object never finds commands,
\* cmd_by_type, cmd_by_id and _snappy_support disagreeing on the flag, and a
\* send_request that found the new flag never encodes with an old-flag command.
C2_AtomicToggle ==
    \A t \in Threads :
        /\ pc[t] = "send_lookup" => Consistent(proto)
        /\ pc[t] = "send_encode" => loc[t].command.snappy_support = loc[t].flag

\* C3 as stated: for a command using Command.decode and a conforming payload,
\* decode of exactly the body encode returned gives the payload back; for Ping
\* at offset 0 the body starts with 0x02 and decodes to the empty mapping.
C3_RoundTripBody ==
    (decoded.called /\ decoded.of = "body" /\ cmd.cmd_type # "Disconnect")
        => /\ decoded.res = Ok(data)
           /\ (cmd.cmd_type = "Ping" /\ cmd.cmd_id_offset = 0)
                 => frame.res.val.body[1] = 2 /\ decoded.res = Ok(<<>>)

\* C3 amended: for a command using Command.decode whose cmd_id is below 128
\* and a conforming payload, with either flag, decode of the message the frame
\* carries (the body cut to the header's frame size) gives the payload back;
\* for Ping at offset 0 the body starts with 0x02 and its message decodes to
\* the empty mapping.
C3_RoundTripMessage ==
    (decoded.called /\ decoded.of = "message" /\ cmd.cmd_type # "Disconnect"
                    /\ cmd.cmd_id < 128)
        => /\ decoded.res = Ok(data)
           /\ (cmd.cmd_type = "Ping" /\ cmd.cmd_id_offset = 0)
                 => frame.res.val.body[1] = 2 /\ decoded.res = Ok(<<>>)

\* a compressed Hello-free round trip and a Hello round trip under the flag
C3_Witness ==
    /\ decoded.called /\ decoded.of = "message"
    /\ cmd.cmd_type = "Hello" /\ cmd.snappy_support /\ cmd.cmd_id_offset = 16
    /\ Len(data.capabilities) = 2 /\ data.client_version_string = <<233>>
    /\ decoded.res.ok

\* C4: decode of any bytes, for every bound command, returns a payload or
\* fails with MalformedMessage and with no other error.
C4_OnlyMalformedMessage ==
    decoded.called => (decoded.res.ok \/ decoded.res.err = "MalformedMessage")

UnpaddedMessage == EncCmdId(cmd) \o CompressPayload(cmd, EncodePayload(cmd, data).val)

\* C5: for every payload encode accepts the header is 16 bytes (the 3-byte
\* big-endian frame size, C2 80 80, zeros) and the body is a multiple of 16
\* bytes: the encoded command id and the payload, then only zeros, 0 to 15 of
\* them, and none when the length is already a multiple of 16.
C5_FramePadding ==
    (frame.called /\ frame.res.ok) =>
        LET header == frame.res.val.header
            body == frame.res.val.body
            size == Len(UnpaddedMessage)
        IN  /\ Len(header) = 16
            /\ BigEndianToInt(SubSeq(header, 1, 3)) = size
            /\ SubSeq(header, 4, 6) = <<194, 128, 128>>
            /\ \A i \in 7..16 : header[i] = 0
            /\ Len(body) % 16 = 0
            /\ Len(body) - size \in 0..15
            /\ SubSeq(body, 1, size) = UnpaddedMessage
            /\ \A i \in (size + 1)..Len(body) : body[i] = 0
            /\ (size % 16 = 0 => body = UnpaddedMessage)

\* a frame whose message fills its last 16-byte block
C5_Witness ==
    /\ frame.called /\ frame.res.ok
    /\ Len(UnpaddedMessage) % 16 = 0
    /\ frame.res.val.body = UnpaddedMessage

\* C6: encode fails exactly when frame_size >= 2^24: every smaller size
\* succeeds with the size in the header's first 3 bytes, every other fails.
C6_FrameSizeLimit ==
    frame.called =>
        /\ frame.res.ok <=> frame_size < FrameSizeLimit
        /\ frame.res.ok => BigEndianToInt(SubSeq(frame.res.val, 1, 3)) = frame_size
        /\ ~frame.res.ok => frame.res.err = "ValueError"

\* the largest size that fits
C6_Witness == frame.called /\ frame_size = FrameSizeLimit - 1 /\ frame.res.ok

HelloRequests == {p \in RequestPayloads : Conforms("Hello", p)}

\* C7: whatever the protocol's flag, after any toggles, its Hello command
\* encodes every Hello payload to the bytes the Hello command bound with the
\* other flag at the same offset produces, and so is the frame it sends.
C7_HelloUncompressed ==
    proto.constructed =>
        /\ \A p \in HelloRequests :
              Encode(proto.cmd_by_type["Hello"], p)
                = Encode(CommandClassInstance("Hello", proto.cmd_id_offset,
                                              ~proto.snappy_support, 1), p)
        /\ (last.op = "send_request" /\ last.cmd_type = "Hello" /\ last.res.ok)
              => Ok(sent[Len(sent)])
                   = Encode(CommandClassInstance("Hello", proto.cmd_id_offset,
                                                 ~proto.snappy_support, 1), last.payload)

\* a Hello sent after compression was turned on
C7_Witness ==
    /\ proto.constructed /\ proto.snappy_support
    /\ <<"Hello", proto.cmd_id_offset, FALSE>> \in DOMAIN command_classes
    /\ last.op = "send_request" /\ last.cmd_type = "Hello" /\ last.res.ok
    /\ Len(last.payload.capabilities) = 1

SendRequestEffect ==
    last'.op = "send_request" =>
        /\ proto' = proto /\ command_classes' = command_classes
        /\ constructed' = constructed /\ handed' = handed
        /\ IF DOMAIN last'.payload # FieldNames(last'.cmd_type)
           THEN last'.res = Raise("ValueError") /\ sent' = sent
           ELSE /\ last'.res.ok
                /\ Ok(sent') =
                     LET Sent(r) == Ok(Append(sent, r.val)) IN
                     Sent(Encode(command_classes[<<last'.cmd_type, proto.cmd_id_offset,
                                                   proto.snappy_support>>],
                                 last'.payload))

\* C8: send_request with a mapping whose keys are not exactly the schema's
\* field names fails, sends nothing and leaves the protocol and the cache as
\* they were; with exactly the field names it makes one peer.send call, with
\* the frame of the currently bound command.
C8_SendRequest == [][SendRequestEffect]_vars

\* a request with an extra key was refused
C8_Witness ==
    /\ last.op = "send_request" /\ last.cmd_type = "Disconnect"
    /\ last.payload = [reason |-> 3, extra |-> 1]
    /\ ~last.res.ok /\ sent = <<>> /\ proto.snappy_support

\* C9: under concurrent first access at most one bound command is built per
\* (schema, offset, snappy) key and all callers get the same instance.
C9_AtMostOnce ==
    /\ \A k \in Specifiers : constructed[k] <= 1
    /\ \A x \in handed, y \in handed : x[1] = y[1] => x[2] = y[2]

ProtocolBound ==
    proto.constructed =>
        LET Key(s) == <<s, proto.cmd_id_offset, proto.snappy_support>>
            schemas == {P2PCommands[i] : i \in 1..Len(P2PCommands)}
        IN  /\ Len(proto.commands) = Len(P2PCommands)
            /\ \A i \in 1..Len(P2PCommands) :
                  /\ Key(P2PCommands[i]) \in DOMAIN command_classes
                  /\ proto.commands[i] = command_classes[Key(P2PCommands[i])]
            /\ DOMAIN proto.cmd_by_type = schemas
            /\ \A s \in schemas : proto.cmd_by_type[s] = command_classes[Key(s)]
            /\ DOMAIN proto.cmd_by_id = {proto.cmd_id_offset + BaseCmdId(s) : s \in schemas}
            /\ Cardinality(DOMAIN proto.cmd_by_id) = Len(P2PCommands)
            /\ \A s \in schemas :
                  proto.cmd_by_id[proto.cmd_id_offset + BaseCmdId(s)] = command_classes[Key(s)]

OffsetKept ==
    proto.constructed => proto'.constructed /\ proto'.cmd_id_offset = proto.cmd_id_offset

\* C10: after construction and after every assignment to snappy_support the
\* commands list, cmd_by_type and cmd_by_id hold one entry per schema, each the
\* cached bound command for (schema, the offset, the current flag), the
\* cmd_by_id keys are offset + _cmd_id and distinct, and the offset never
\* changes.
C10_ProtocolBound == []ProtocolBound /\ [][OffsetKept]_vars

\* the flag set back to false on a protocol built at offset 16 with it on
C10_Witness ==
    /\ proto.constructed /\ proto.cmd_id_offset = 16 /\ ~proto.snappy_support
    /\ last.op = "snappy_support"
    /\ <<"Pong", 16, TRUE>> \in DOMAIN command_classes

====
